---- MODULE Spec2Model ----
(***************************************************************************)
(* Model of swimmy_python_manager: the two UploadManager implementations  *)
(* (overlay-index based, src/utils/upload_manager.py, and access-time     *)
(* based with threads, src/upload_manager.py) and the workflow of main    *)
(* (src/main.py).                                                          *)
(***************************************************************************)
EXTENDS Integers, Sequences, FiniteSets, TLC

\* ------------------------------------------------------------------------
\* Bounds of the model
\* ------------------------------------------------------------------------

\* Overlay icon indices the shell can report are 0..MaxOverlay.
MaxOverlay == 1

\* The clock of the file system runs from 0 to MaxTime (seconds).
MaxTime == 2

\* ------------------------------------------------------------------------
\* Python arithmetic: int((c / t) * 100) on IEEE-754 binary64
\* ------------------------------------------------------------------------

\* Width of the significand of a Python float (binary64).
MantBits == 53

RECURSIVE Pow2(_)
Pow2(n) == IF n = 0 THEN 1 ELSE 2 * Pow2(n - 1)

\* A sequence back to front.
Rev(s) == [i \in 1..Len(s) |-> s[Len(s) + 1 - i]]

\* Value of a short bit string, most significant bit first.
RECURSIVE BitsVal(_)
BitsVal(s) == IF s = <<>> THEN 0 ELSE 2 * BitsVal(SubSeq(s, 1, Len(s) - 1)) + s[Len(s)]

\* Add one to a bit string given most significant bit first (may grow by a bit).
IncBits(s) ==
    LET zeros == {i \in 1..Len(s) : s[i] = 0}
    IN  IF zeros = {} THEN <<1>> \o [i \in 1..Len(s) |-> 0]
        ELSE LET z == CHOOSE i \in zeros : \A j \in zeros : j <= i
             IN  [i \in 1..Len(s) |-> IF i < z THEN s[i] ELSE IF i = z THEN 1 ELSE 0]

\* Round to nearest, ties to even: `kept' (msb first) is the truncated significand,
\* `up' says the discarded part is more than half a unit, `tie' that it is exactly half.
RoundNearestEven(kept, up, tie) ==
    IF up \/ (tie /\ kept[Len(kept)] = 1) THEN IncBits(kept) ELSE kept

\* Exponent of c / t: the least k with c * 2^k >= t (0 < c <= t).
RECURSIVE NormShift(_, _)
NormShift(c, t) == IF c >= t THEN 0 ELSE 1 + NormShift(2 * c, t)

\* Long division: the next n bits of r / t (0 <= r < t), msb first, and the remainder.
RECURSIVE DivBits(_, _, _)
DivBits(r, t, n) ==
    IF n = 0 THEN [bits |-> <<>>, rem |-> r]
    ELSE IF n = 1
    THEN LET b == IF 2 * r >= t THEN 1 ELSE 0
         IN  [bits |-> <<b>>, rem |-> 2 * r - b * t]
    ELSE LET hi == DivBits(r, t, n \div 2)
             lo == DivBits(hi.rem, t, n - n \div 2)
         IN  [bits |-> hi.bits \o lo.bits, rem |-> lo.rem]

\* For c >= t, the j with t * 2^j <= c < t * 2^(j+1); 0 for c < t.
RECURSIVE UpShift(_, _)
UpShift(c, t) == IF c < 2 * t THEN 0 ELSE 1 + UpShift(c, 2 * t)

\* The float c / t for integers c > 0, t > 0 (Python's int true division is correctly
\* rounded): the significand `m' as a bit string, most significant bit first, and
\* `sh' with c / t = m * 2^-sh.
PyTrueDiv(c, t) ==
    LET up == UpShift(c, t)
        tt == t * Pow2(up)
        k == NormShift(c, tt)
        d == DivBits(c * Pow2(k) - tt, tt, MantBits - 1)
        m == RoundNearestEven(<<1>> \o d.bits, 2 * d.rem > tt, 2 * d.rem = tt)
    IN  [m |-> m, sh |-> k - up + MantBits - 1]

\* 100 * m + carry for a bit string m given least significant bit first: the low
\* Len(m) bits of the product and the carry out of them.
RECURSIVE Times100Lsb(_, _)
Times100Lsb(s, carry) ==
    IF s = <<>> THEN [bits |-> <<>>, carry |-> carry]
    ELSE IF Len(s) = 1
    THEN LET acc == carry + 100 * s[1]
         IN  [bits |-> <<acc % 2>>, carry |-> acc \div 2]
    ELSE LET h == Len(s) \div 2
             lo == Times100Lsb(SubSeq(s, 1, h), carry)
             hi == Times100Lsb(SubSeq(s, h + 1, Len(s)), lo.carry)
         IN  [bits |-> lo.bits \o hi.bits, carry |-> hi.carry]

\* A small natural number as a bit string, most significant bit first (0 is empty).
RECURSIVE NatBits(_)
NatBits(n) == IF n = 0 THEN <<>> ELSE NatBits(n \div 2) \o <<n % 2>>

\* The float x * 100 for a float x = m * 2^-sh (IEEE multiplication, correctly rounded).
PyMul100(x) ==
    LET prod == Times100Lsb(Rev(x.m), 0)
        p == NatBits(prod.carry) \o Rev(prod.bits)
        drop == Len(p) - MantBits
        kept == SubSeq(p, 1, MantBits)
        low == SubSeq(p, MantBits + 1, Len(p))
        half == <<1>> \o [i \in 1..(drop - 1) |-> 0]
        m2 == IF drop <= 0 THEN p
              ELSE RoundNearestEven(kept, low # half /\ low[1] = 1, low = half)
    IN  [m |-> m2, sh |-> x.sh - (IF drop <= 0 THEN 0 ELSE drop)]

\* int(x) for a float 0 <= x = m * 2^-sh: truncation.
PyInt(x) ==
    IF x.sh <= 0 THEN BitsVal(x.m)
    ELSE IF Len(x.m) <= x.sh THEN 0
    ELSE BitsVal(SubSeq(x.m, 1, Len(x.m) - x.sh))

\* int((completed / total) * 100) as upload_manager.py computes it (c >= 0, t > 0).
PyPercent(c, t) ==
    IF c = 0 THEN 0 ELSE PyInt(PyMul100(PyTrueDiv(c, t)))

\* ------------------------------------------------------------------------
\* Files and paths
\* ------------------------------------------------------------------------

\* Relative paths of the files of the workspace (the source directory).
RelPaths == {"a", "b"}

\* Byte sizes a source file may have (0: empty file; 29 of 29 + 21 bytes is 58 %).
SizeChoices == {0, 21, 29}

SrcPath(rel) == <<"src", rel>>
DstPath(rel) == <<"dst", rel>>
SrcPaths == {SrcPath(r) : r \in RelPaths}
DstPaths == {DstPath(r) : r \in RelPaths}

\* str(dst_folder / path.relative_to(src_dir)), for a path below src_dir
GetNewPath(path) == <<"dst", path[2]>>

\* os.path.join(dst_folder, os.path.relpath(path, src_dir))
DeleteTarget(path) == <<"dst", path[2]>>

\* get_overlay_index returns None when the shell call raises
NoneIdx == -1

VARIABLES
    component,      \* which part of the repository the behaviour exercises
    \* --- overlay-based UploadManager (src/utils/upload_manager.py) and its environment
    srcSize,        \* byte size of each source file
    dstFiles,       \* destination paths at which a file exists
    overlay,        \* overlay icon index the shell currently reports for a path
    fileStatuses,   \* _file_statuses: destination path -> status record
    progress,       \* _progress
    srcFiles,       \* _src_files: the batch of the last upload_files call
    totalSize,      \* _total_size
    completedSize,  \* _completed_size
    hasSizes,       \* whether _total_size / _completed_size exist yet (set by upload_files)
    lastUpload,     \* how the last upload_files call ended: "none", "copied", "declined"
    lastCall,       \* the last call made on the manager, with its inputs and result
    \* --- threaded UploadManager (src/upload_manager.py) and its environment
    thDst,          \* destination paths at which a file exists
    atime,          \* last-access time of each destination path
    now,            \* the clock
    threshold,      \* ACCESS_CHANGE_THRESHOLD of config.ini
    thStatuses,     \* _file_statuses: destination path -> the status dict stored for it
    thObjs,         \* the status dicts ever created: [initial, changed]
    thProgress,     \* _progress
    thSrcFiles,     \* _src_files
    thTotalFiles,   \* _total_files
    calls,          \* number of upload_files calls made so far
    copyPc,         \* per call: where its _copy_files thread is
    copyLeft,       \* per call: the files its copy loop has still to visit
    monPc,          \* per call: where its _monitor_progress thread is
    monIter,        \* per call: the dict iterator of the monitor's for loop
    checks,         \* the _check_last_accessed threads started and not yet run
    thLog,          \* the last step taken: thread, operation, access to _file_statuses
    \* --- main (src/main.py) and its environment
    mnPc,           \* the statement of main that runs next
    mnRc,           \* the value main returned (when mnPc = "returned")
    windows,        \* titles of the windows open on the desktop
    selected,       \* selected_folder (<<>> while None)
    wsDirs,         \* names of the workspace directories that exist
    wsContent,      \* files in the workspace directory of the selected folder
    trash,          \* what has been moved to the trash: <<directory, its files>>
    wsFile,         \* whether the generated workspace file exists
    baseReadable,   \* whether the base workspace file can be read
    storage,        \* VSCode's storage.json: "missing", "state" or "cleared"
    editor,         \* the editor process: "off", "running" or "exited"
    dialog,         \* the upload dialog: "none", "open" or "closed"
    mnTrace,        \* what main has done so far, in order
    \* --- upload dialog (src/utils/file_upload_selector.py) and its environment
    dgWin,          \* the dialog's root window: "none", "open" or "destroyed"
    dgDirOk,        \* whether the workspace directory exists
    dgExclOk,       \* whether the exclude-list file exists
    dgExcludes,     \* the names the exclude-list file holds
    checkVars,      \* check_vars: listed item -> state of its checkbox
    uploadedFiles,  \* uploaded_files
    dgButton,       \* state of the upload button: "normal" or "disabled"
    dgTimer,        \* whether a call of _update_progress is scheduled (root.after)
    dgPc,           \* where _on_upload is: "idle", "deleting"
    dgSelected,     \* selected_items of the running _on_upload
    dgPending,      \* deleting_items the running _on_upload has still to visit
    dgLog           \* the last handler run, with the question it asked and the answer

ovVars == <<srcSize, dstFiles, overlay, fileStatuses, progress, srcFiles, totalSize,
            completedSize, hasSizes, lastUpload, lastCall>>

thVars == <<thDst, atime, now, threshold, thStatuses, thObjs, thProgress, thSrcFiles,
            thTotalFiles, calls, copyPc, copyLeft, monPc, monIter, checks, thLog>>

mnVars == <<mnPc, mnRc, windows, selected, wsDirs, wsContent, trash, wsFile,
            baseReadable, storage, editor, dialog, mnTrace>>

dgVars == <<dgWin, dgDirOk, dgExclOk, dgExcludes, checkVars, uploadedFiles, dgButton,
            dgTimer, dgPc, dgSelected, dgPending, dgLog>>

vars == <<component, ovVars, thVars, mnVars, dgVars>>

\* A call record: the operation, its file arguments, the answer given to the overwrite
\* dialog, the overlay reads it made, the destination files it removed, its result.
NoCall == [op |-> "none", files |-> {}, confirmed |-> FALSE, reads |-> {},
           removed |-> {}, ret |-> 0, raised |-> FALSE]

Empty == [p \in {} |-> 0]

RECURSIVE SumOver(_, _)
SumOver(S, w) ==
    IF S = {} THEN 0
    ELSE LET e == CHOOSE z \in S : TRUE IN w[e] + SumOver(S \ {e}, w)

Max(a, b) == IF a >= b THEN a ELSE b

\* The largest total weight a batch can have, and PyPercent tabulated up to it
\* (evaluated once, so that the bit-level arithmetic is not redone in every state).
TotalCap ==
    Cardinality(RelPaths) * Max(1, CHOOSE m \in SizeChoices : \A z \in SizeChoices : z <= m)

PercentTable == [t \in 1..TotalCap |-> [c \in 0..t |-> PyPercent(c, t)]]

\* file_size = max(1, os.path.getsize(src_file))
FileWeight(size) == Max(1, size)

\* UploadManager.__init__
OvInit ==
    /\ srcSize \in [SrcPaths -> SizeChoices]
    /\ dstFiles \in SUBSET DstPaths
    /\ overlay = [p \in DstPaths |-> 0]
    /\ fileStatuses = Empty
    /\ progress = 0
    /\ srcFiles = {}
    /\ totalSize = 0
    /\ completedSize = 0
    /\ hasSizes = FALSE
    /\ lastUpload = "none"
    /\ lastCall = NoCall

\* What get_overlay_index returns for a path: the shell's index, or None when the
\* call raised (`failed').
GetOverlayIndex(path, failed) == IF failed THEN NoneIdx ELSE overlay[path]

\* The status record stored for a copied file whose first overlay read succeeded.
InitialStatus(idx, size) == [initial_overlay |-> idx, changed |-> FALSE, size |-> size]

\* Variant of StartProgress: the reset of _progress is forgotten.
StartProgressKept(previous) == previous

\* self._progress = 0 at the start of upload_files
StartProgress(previous) == 0

\* existing_files: the files of the batch that already exist at their destination
ExistingFiles(batch) == {s \in batch : GetNewPath(s) \in dstFiles}

\* Variant of RemovedOnUpload: the existing files are removed before the answer is looked at.
RemovedOnUploadEager(existing, confirmed) == {GetNewPath(s) : s \in existing}

\* The destination files upload_files removes before copying.
RemovedOnUpload(existing, confirmed) ==
    IF confirmed THEN {GetNewPath(s) : s \in existing} ELSE {}

\* upload_files(file_list): file_list is `batch'; `confirmed' is the answer to the
\* overwrite dialog (asked only when a destination file exists); `failed' are the
\* files whose overlay read right after the copy raised.
UploadFiles(batch, confirmed, failed) ==
    LET existing == ExistingFiles(batch)
        weight == [s \in batch |-> FileWeight(srcSize[s])]
        tracked == batch \ failed
    IN  /\ hasSizes' = TRUE
        /\ completedSize' = 0
        /\ srcFiles' = batch
        /\ UNCHANGED <<srcSize, overlay>>
        /\ IF existing # {} /\ ~confirmed
           THEN /\ progress' = -1
                /\ fileStatuses' = Empty
                /\ totalSize' = 0
                /\ dstFiles' = dstFiles \ RemovedOnUpload(existing, FALSE)
                /\ lastUpload' = "declined"
                /\ lastCall' = [NoCall EXCEPT !.op = "upload_files", !.files = batch,
                                   !.removed = RemovedOnUpload(existing, FALSE)]
           ELSE /\ progress' = StartProgress(progress)
                /\ dstFiles' = (dstFiles \ RemovedOnUpload(existing, TRUE))
                                 \cup {GetNewPath(s) : s \in batch}
                /\ totalSize' = SumOver(batch, weight)
                /\ fileStatuses' =
                       [p \in {GetNewPath(s) : s \in tracked} |->
                           LET s == CHOOSE z \in tracked : GetNewPath(z) = p
                           IN  InitialStatus(GetOverlayIndex(p, FALSE), weight[s])]
                /\ lastUpload' = "copied"
                /\ lastCall' = [NoCall EXCEPT !.op = "upload_files", !.files = batch,
                                   !.confirmed = TRUE,
                                   !.removed = RemovedOnUpload(existing, TRUE)]

\* Variant of OverlayChanged: a failed read (None) is compared like an index.
OverlayChangedNoneCounts(current, status) == current # status.initial_overlay

\* Whether get_upload_progress marks a record changed on reading `current'.
OverlayChanged(current, status) ==
    current # NoneIdx /\ current # status.initial_overlay

\* self._completed_size after the loop of get_upload_progress
CompletedSize(statuses) ==
    LET done == {p \in DOMAIN statuses : statuses[p].changed}
    IN  SumOver(done, [p \in done |-> statuses[p].size])

\* get_upload_progress(): `failed' are the tracked paths whose overlay read raised.
GetUploadProgress(failed) ==
    IF ~hasSizes
    THEN \* self._total_size does not exist before the first upload_files: AttributeError
         /\ completedSize' = 0
         /\ lastCall' = [NoCall EXCEPT !.op = "get_upload_progress", !.raised = TRUE]
         /\ UNCHANGED <<srcSize, dstFiles, overlay, fileStatuses, progress, srcFiles,
                        totalSize, hasSizes, lastUpload>>
    ELSE LET current == [p \in DOMAIN fileStatuses |-> GetOverlayIndex(p, p \in failed)]
             marked == [p \in DOMAIN fileStatuses |->
                           IF OverlayChanged(current[p], fileStatuses[p])
                           THEN [fileStatuses[p] EXCEPT !.changed = TRUE]
                           ELSE fileStatuses[p]]
             completed == CompletedSize(marked)
             result == IF totalSize > 0 THEN PercentTable[totalSize][completed] ELSE progress
         IN  /\ fileStatuses' = marked
             /\ completedSize' = completed
             /\ progress' = result
             /\ lastCall' = [NoCall EXCEPT !.op = "get_upload_progress",
                                !.reads = {<<p, current[p]>> : p \in DOMAIN fileStatuses},
                                !.ret = result]
             /\ UNCHANGED <<srcSize, dstFiles, overlay, srcFiles, totalSize, hasSizes,
                            lastUpload>>

\* Variant of DeleteGuard: the changed flag is not looked at.
DeleteGuardAnyTracked(full) == full \in DOMAIN fileStatuses

\* Whether delete_file acts on the destination path at all.
DeleteGuard(full) == full \in DOMAIN fileStatuses /\ fileStatuses[full].changed

\* delete_file(path)
DeleteFile(path) ==
    LET full == DeleteTarget(path)
    IN  /\ UNCHANGED <<srcSize, overlay, progress, srcFiles, totalSize, completedSize,
                       hasSizes, lastUpload>>
        /\ IF DeleteGuard(full) /\ full \in dstFiles
           THEN /\ dstFiles' = dstFiles \ {full}
                /\ fileStatuses' = [p \in DOMAIN fileStatuses \ {full} |-> fileStatuses[p]]
                /\ lastCall' = [NoCall EXCEPT !.op = "delete_file", !.files = {path},
                                   !.removed = {full}]
           ELSE \* guard false, or os.remove raised FileNotFoundError (record kept)
                /\ UNCHANGED <<dstFiles, fileStatuses>>
                /\ lastCall' = [NoCall EXCEPT !.op = "delete_file", !.files = {path}]

\* The sync client (or Explorer) changes the overlay icon of a path.
OverlaySignal(path, idx) ==
    /\ overlay[path] # idx
    /\ overlay' = [overlay EXCEPT ![path] = idx]
    /\ lastCall' = [NoCall EXCEPT !.op = "env"]
    /\ UNCHANGED <<srcSize, dstFiles, fileStatuses, progress, srcFiles, totalSize,
                   completedSize, hasSizes, lastUpload>>

\* Something other than the manager removes a destination file.
ExternalRemove(path) ==
    /\ path \in dstFiles
    /\ dstFiles' = dstFiles \ {path}
    /\ lastCall' = [NoCall EXCEPT !.op = "env"]
    /\ UNCHANGED <<srcSize, overlay, fileStatuses, progress, srcFiles, totalSize,
                   completedSize, hasSizes, lastUpload>>

OvUpload ==
    /\ component = "overlay"
    /\ UNCHANGED <<thVars, mnVars, dgVars>>
    /\ \E batch \in SUBSET SrcPaths, confirmed \in BOOLEAN :
        \E failed \in SUBSET batch :
            /\ (ExistingFiles(batch) = {} => confirmed)
            /\ (~confirmed => failed = {})
            /\ UploadFiles(batch, confirmed, failed)
    /\ UNCHANGED component

OvProgress ==
    /\ component = "overlay"
    /\ UNCHANGED <<thVars, mnVars, dgVars>>
    /\ \E failed \in SUBSET (DOMAIN fileStatuses) : GetUploadProgress(failed)
    /\ UNCHANGED component

OvDelete ==
    /\ component = "overlay"
    /\ UNCHANGED <<thVars, mnVars, dgVars>>
    /\ \E path \in SrcPaths : DeleteFile(path)
    /\ UNCHANGED component

OvSignal ==
    /\ component = "overlay"
    /\ UNCHANGED <<thVars, mnVars, dgVars>>
    /\ \E path \in DstPaths, idx \in 0..MaxOverlay : OverlaySignal(path, idx)
    /\ UNCHANGED component

OvRemove ==
    /\ component = "overlay"
    /\ UNCHANGED <<thVars, mnVars, dgVars>>
    /\ \E path \in DstPaths : ExternalRemove(path)
    /\ UNCHANGED component

\* The overlay-based manager when the behaviour exercises another component.
OvIdle ==
    /\ srcSize = [p \in SrcPaths |-> 0]
    /\ dstFiles = {}
    /\ overlay = [p \in DstPaths |-> 0]
    /\ fileStatuses = Empty
    /\ progress = 0
    /\ srcFiles = {}
    /\ totalSize = 0
    /\ completedSize = 0
    /\ hasSizes = FALSE
    /\ lastUpload = "none"
    /\ lastCall = NoCall

\* ------------------------------------------------------------------------
\* Claims about the overlay-based UploadManager
\* ------------------------------------------------------------------------

Returned == lastCall.op = "get_upload_progress" /\ ~lastCall.raised

BatchWeight == SumOver(srcFiles, [s \in srcFiles |-> Max(1, srcSize[s])])

\* C of C2: the same sum over the tracked files currently marked changed.
ChangedWeight ==
    LET done == {s \in srcFiles : /\ GetNewPath(s) \in DOMAIN fileStatuses
                                  /\ fileStatuses[GetNewPath(s)].changed}
    IN  SumOver(done, [s \in done |-> Max(1, srcSize[s])])

\* C2 as stated: after upload_files has copied a (non-empty) batch, get_upload_progress
\* returns floor(100 * C / T), and the result is 100 exactly when every file of the
\* batch is marked changed.
C2_FloorOfWeightedShare ==
    (Returned /\ lastUpload = "copied" /\ srcFiles # {}) =>
        /\ lastCall.ret = (100 * ChangedWeight) \div BatchWeight
        /\ (lastCall.ret = 100 <=>
               \A s \in srcFiles : /\ GetNewPath(s) \in DOMAIN fileStatuses
                                   /\ fileStatuses[GetNewPath(s)].changed)

Declined(call) == call.op = "upload_files" /\ ~call.confirmed

DeleteEffect(full, removedFile) ==
    IF removedFile
    THEN /\ dstFiles' = dstFiles \ {full}
         /\ full \in dstFiles
         /\ fileStatuses' = [p \in DOMAIN fileStatuses \ {full} |-> fileStatuses[p]]
    ELSE /\ dstFiles' = dstFiles
         /\ fileStatuses' = fileStatuses

\* C8 as stated: delete_file does nothing when the destination path is untracked or
\* its record is not changed; otherwise the destination file is removed and its
\* record is removed from the tracking map.
C8_DeleteFrame ==
    [][lastCall'.op = "delete_file" =>
          \A path \in lastCall'.files :
              LET full == DeleteTarget(path)
              IN  IF full \in DOMAIN fileStatuses /\ fileStatuses[full].changed
                  THEN /\ full \notin dstFiles'
                       /\ full \notin DOMAIN fileStatuses'
                       /\ \A p \in DOMAIN fileStatuses \ {full} :
                              p \in DOMAIN fileStatuses' /\ fileStatuses'[p] = fileStatuses[p]
                       /\ dstFiles' = dstFiles \ {full}
                  ELSE DeleteEffect(full, FALSE)]_vars

\* C8, amended: delete_file does nothing when the destination path is untracked, its
\* record is not changed, or the destination file no longer exists (the record then
\* stays tracked); otherwise the file is removed and its record leaves the map.
C8_DeleteFrameIfPresent ==
    [][lastCall'.op = "delete_file" =>
          \A path \in lastCall'.files :
              LET full == DeleteTarget(path)
              IN  DeleteEffect(full, /\ full \in DOMAIN fileStatuses
                                     /\ fileStatuses[full].changed
                                     /\ full \in dstFiles)]_vars

\* C8 witness: delete_file has just removed a destination file, and another file of
\* the batch is still tracked.
C8_Witness ==
    /\ lastCall.op = "delete_file" /\ lastCall.removed # {}
    /\ DOMAIN fileStatuses # {}

\* ------------------------------------------------------------------------
\* Threaded UploadManager (src/upload_manager.py)
\* ------------------------------------------------------------------------

\* The upload_files calls of a behaviour (each starts its own copy and monitor thread).
CallIds == {1}

\* Values ACCESS_CHANGE_THRESHOLD may be configured to.
ThresholdChoices == {1, 2}

\* A status dict is identified by the call whose copy thread created it and its path.
ObjIds == CallIds \X DstPaths

NoObj == [initial |-> 0, changed |-> FALSE]

NoIter == [size |-> 0, left |-> {}]

NoStep == [thread |-> "none", op |-> "none", access |-> "none", locked |-> FALSE,
           call |-> 0, paths |-> {}, removed |-> {}]

\* UploadManager.__init__
ThInit ==
    /\ thDst \in SUBSET DstPaths
    /\ atime = [p \in DstPaths |-> 0]
    /\ now = 0
    /\ threshold \in ThresholdChoices
    /\ thStatuses = Empty
    /\ thObjs = [o \in ObjIds |-> NoObj]
    /\ thProgress = 0
    /\ thSrcFiles = {}
    /\ thTotalFiles = 0
    /\ calls = 0
    /\ copyPc = [k \in CallIds |-> "none"]
    /\ copyLeft = [k \in CallIds |-> {}]
    /\ monPc = [k \in CallIds |-> "none"]
    /\ monIter = [k \in CallIds |-> NoIter]
    /\ checks = {}
    /\ thLog = NoStep

\* The threaded manager when the behaviour exercises another component.
ThIdle ==
    /\ thDst = {}
    /\ atime = [p \in DstPaths |-> 0]
    /\ now = 0
    /\ threshold = 1
    /\ thStatuses = Empty
    /\ thObjs = [o \in ObjIds |-> NoObj]
    /\ thProgress = 0
    /\ thSrcFiles = {}
    /\ thTotalFiles = 0
    /\ calls = 0
    /\ copyPc = [k \in CallIds |-> "none"]
    /\ copyLeft = [k \in CallIds |-> {}]
    /\ monPc = [k \in CallIds |-> "none"]
    /\ monIter = [k \in CallIds |-> NoIter]
    /\ checks = {}
    /\ thLog = NoStep

\* upload_files(file_list), on the caller's thread: resets the fields, clears the
\* dictionary (outside _lock) and starts the copy thread.
ThUploadFiles(batch) ==
    /\ calls + 1 \in CallIds
    /\ calls' = calls + 1
    /\ thSrcFiles' = batch
    /\ thTotalFiles' = Cardinality(batch)
    /\ thProgress' = 0
    /\ thStatuses' = Empty
    /\ copyPc' = [copyPc EXCEPT ![calls + 1] = "start"]
    /\ thLog' = [NoStep EXCEPT !.thread = "caller", !.op = "upload_files",
                    !.access = "clear", !.locked = FALSE, !.call = calls + 1,
                    !.paths = DOMAIN thStatuses]
    /\ UNCHANGED <<thDst, atime, now, threshold, thObjs, copyLeft, monPc, monIter, checks>>

\* _copy_files up to its copy loop: the overwrite dialog. `confirmed' is the answer.
CopyStart(k, confirmed) ==
    LET existing == {s \in thSrcFiles : GetNewPath(s) \in thDst}
    IN  /\ copyPc[k] = "start"
        /\ (existing = {} => confirmed)
        /\ UNCHANGED <<atime, now, threshold, thStatuses, thObjs, thSrcFiles, thTotalFiles,
                       calls, monPc, monIter, checks>>
        /\ IF confirmed
           THEN /\ thDst' = thDst \ {GetNewPath(s) : s \in existing}
                /\ copyPc' = [copyPc EXCEPT ![k] = "copy"]
                /\ copyLeft' = [copyLeft EXCEPT ![k] = thSrcFiles]
                /\ thProgress' = thProgress
                /\ thLog' = [NoStep EXCEPT !.thread = "copy", !.op = "overwrite",
                                !.call = k, !.removed = {GetNewPath(s) : s \in existing}]
           ELSE /\ thProgress' = -1
                /\ copyPc' = [copyPc EXCEPT ![k] = "cancelled"]
                /\ thLog' = [NoStep EXCEPT !.thread = "copy", !.op = "declined", !.call = k]
                /\ UNCHANGED <<thDst, copyLeft>>

\* One round of the copy loop: copy2 (which carries the source's access time, `t0',
\* over to the copy), read the access time, store the status dict under _lock.
CopyOne(k, src, t0) ==
    LET p == GetNewPath(src)
    IN  /\ copyPc[k] = "copy"
        /\ src \in copyLeft[k]
        /\ thDst' = thDst \cup {p}
        /\ atime' = [atime EXCEPT ![p] = t0]
        /\ thStatuses' = [q \in DOMAIN thStatuses \cup {p} |->
                             IF q = p THEN <<k, p>> ELSE thStatuses[q]]
        /\ thObjs' = [thObjs EXCEPT ![<<k, p>>] = [initial |-> t0, changed |-> FALSE]]
        /\ copyLeft' = [copyLeft EXCEPT ![k] = @ \ {src}]
        /\ thLog' = [NoStep EXCEPT !.thread = "copy", !.op = "copy", !.access = "insert",
                        !.locked = TRUE, !.call = k, !.paths = {p}]
        /\ UNCHANGED <<now, threshold, thProgress, thSrcFiles, thTotalFiles, calls, copyPc,
                       monPc, monIter, checks>>

\* Whether _copy_files may start the monitor thread.
MayStartMonitor(k) == copyPc[k] = "copy" /\ copyLeft[k] = {}

\* The end of _copy_files: the monitor thread is started.
StartMonitor(k) ==
    /\ MayStartMonitor(k)
    /\ monPc[k] = "none"
    /\ copyPc' = [copyPc EXCEPT ![k] = "done"]
    /\ monPc' = [monPc EXCEPT ![k] = "count"]
    /\ thLog' = [NoStep EXCEPT !.thread = "copy", !.op = "start_monitor", !.call = k]
    /\ UNCHANGED <<thDst, atime, now, threshold, thStatuses, thObjs, thProgress, thSrcFiles,
                   thTotalFiles, calls, copyLeft, monIter, checks>>

\* completed_files_count of _monitor_progress
CompletedCount == Cardinality({p \in DOMAIN thStatuses : thObjs[thStatuses[p]].changed})

\* int((count / total_files) * 100), tabulated
ThPercentTable ==
    [t \in 1..Cardinality(RelPaths) |-> [c \in 0..Cardinality(RelPaths) |-> PyPercent(c, t)]]

\* _monitor_progress, the block under _lock: count the changed records, set _progress.
\* total_files = 0 raises ZeroDivisionError, which ends the thread.
MonitorCount(k) ==
    /\ monPc[k] = "count"
    /\ UNCHANGED <<thDst, atime, now, threshold, thStatuses, thObjs, thSrcFiles, thTotalFiles,
                   calls, copyPc, copyLeft, monIter, checks>>
    /\ IF thTotalFiles = 0
       THEN /\ monPc' = [monPc EXCEPT ![k] = "crashed"]
            /\ thProgress' = thProgress
            /\ thLog' = [NoStep EXCEPT !.thread = "monitor", !.op = "ZeroDivisionError",
                            !.access = "read", !.locked = TRUE, !.call = k]
       ELSE /\ monPc' = [monPc EXCEPT ![k] = "test"]
            /\ thProgress' = ThPercentTable[thTotalFiles][CompletedCount]
            /\ thLog' = [NoStep EXCEPT !.thread = "monitor", !.op = "count",
                            !.access = "read", !.locked = TRUE, !.call = k]

\* Whether the monitor loop ends: if self._progress >= 100: break
MonitorDone == thProgress >= 100

\* _monitor_progress after the locked block: leave the loop, or start the for loop
\* over self._file_statuses.items() (outside _lock).
MonitorTest(k) ==
    /\ monPc[k] = "test"
    /\ UNCHANGED <<thDst, atime, now, threshold, thStatuses, thObjs, thProgress, thSrcFiles,
                   thTotalFiles, calls, copyPc, copyLeft, checks>>
    /\ IF MonitorDone
       THEN /\ monPc' = [monPc EXCEPT ![k] = "exited"]
            /\ monIter' = monIter
            /\ thLog' = [NoStep EXCEPT !.thread = "monitor", !.op = "exit", !.call = k]
       ELSE /\ monPc' = [monPc EXCEPT ![k] = "iter"]
            /\ monIter' = [monIter EXCEPT ![k] = [size |-> Cardinality(DOMAIN thStatuses),
                                                  left |-> DOMAIN thStatuses]]
            /\ thLog' = [NoStep EXCEPT !.thread = "monitor", !.op = "iter",
                            !.access = "iterate", !.locked = FALSE, !.call = k]

\* One step of the for loop (outside _lock): the dict iterator raises RuntimeError when
\* the dictionary's size differs from the size at the start of the loop; otherwise it
\* yields the next item still stored, and a check thread is started for it unless it
\* is marked changed; when nothing is left the monitor sleeps and loops.
MonitorIter(k) ==
    LET it == monIter[k]
        rest == it.left \cap DOMAIN thStatuses
    IN  /\ monPc[k] = "iter"
        /\ UNCHANGED <<thDst, atime, now, threshold, thStatuses, thObjs, thProgress,
                       thSrcFiles, thTotalFiles, calls, copyPc, copyLeft>>
        /\ IF Cardinality(DOMAIN thStatuses) # it.size
           THEN /\ monPc' = [monPc EXCEPT ![k] = "crashed"]
                /\ monIter' = [monIter EXCEPT ![k] = NoIter]
                /\ checks' = checks
                /\ thLog' = [NoStep EXCEPT !.thread = "monitor", !.op = "RuntimeError",
                                !.access = "iterate", !.locked = FALSE, !.call = k]
           ELSE IF rest = {}
           THEN /\ monPc' = [monPc EXCEPT ![k] = "count"]
                /\ monIter' = [monIter EXCEPT ![k] = NoIter]
                /\ checks' = checks
                /\ thLog' = [NoStep EXCEPT !.thread = "monitor", !.op = "sleep",
                                !.access = "iterate", !.locked = FALSE, !.call = k]
           ELSE \E p \in rest :
                /\ monPc' = monPc
                /\ monIter' = [monIter EXCEPT ![k].left = rest \ {p}]
                /\ checks' = IF thObjs[thStatuses[p]].changed THEN checks
                             ELSE checks \cup {thStatuses[p]}
                /\ thLog' = [NoStep EXCEPT !.thread = "monitor", !.op = "next",
                                !.access = "iterate", !.locked = FALSE, !.call = k,
                                !.paths = {p}]

\* The test of _check_last_accessed: threshold <= (current - initial).total_seconds()
AccessChanged(current, initial) == threshold <= current - initial

\* A _check_last_accessed thread runs: os.path.getatime raises when the file is
\* gone; the status dict it was given is marked under _lock when the test passes.
CheckLastAccessed(o) ==
    LET p == o[2]
    IN  /\ o \in checks
        /\ checks' = checks \ {o}
        /\ UNCHANGED <<thDst, atime, now, threshold, thStatuses, thProgress, thSrcFiles,
                       thTotalFiles, calls, copyPc, copyLeft, monPc, monIter>>
        /\ IF p \in thDst /\ AccessChanged(atime[p], thObjs[o].initial)
           THEN /\ thObjs' = [thObjs EXCEPT ![o].changed = TRUE]
                /\ thLog' = [NoStep EXCEPT !.thread = "check", !.op = "mark",
                                !.access = "write_changed", !.locked = TRUE,
                                !.call = o[1], !.paths = {p}]
           ELSE /\ thObjs' = thObjs
                /\ thLog' = [NoStep EXCEPT !.thread = "check", !.op = "check",
                                !.call = o[1], !.paths = {p}]

\* get_upload_progress(), on the caller's thread
ThGetUploadProgress ==
    /\ thLog' = [NoStep EXCEPT !.thread = "caller", !.op = "get_upload_progress"]
    /\ UNCHANGED <<thDst, atime, now, threshold, thStatuses, thObjs, thProgress, thSrcFiles,
                   thTotalFiles, calls, copyPc, copyLeft, monPc, monIter, checks>>

\* Whether delete_file removes the destination file: os.remove(file_path).
ThDeleteRemoves(full) == full \in thDst

\* delete_file(path), on the caller's thread, under _lock: os.remove, then del; a
\* FileNotFoundError or KeyError ends the block silently.
ThDeleteFile(path) ==
    LET full == GetNewPath(path)
    IN  /\ UNCHANGED <<atime, now, threshold, thObjs, thProgress, thSrcFiles, thTotalFiles,
                       calls, copyPc, copyLeft, monPc, monIter, checks>>
        /\ IF ThDeleteRemoves(full)
           THEN /\ thDst' = thDst \ {full}
                /\ thStatuses' = [q \in DOMAIN thStatuses \ {full} |-> thStatuses[q]]
                /\ thLog' = [NoStep EXCEPT !.thread = "caller", !.op = "delete_file",
                                !.access = "delete", !.locked = TRUE, !.paths = {full},
                                !.removed = {full}]
           ELSE /\ UNCHANGED <<thDst, thStatuses>>
                /\ thLog' = [NoStep EXCEPT !.thread = "caller", !.op = "delete_file",
                                !.locked = TRUE, !.paths = {full}]

\* Time passes.
Tick ==
    /\ now < MaxTime
    /\ now' = now + 1
    /\ thLog' = [NoStep EXCEPT !.thread = "env", !.op = "tick"]
    /\ UNCHANGED <<thDst, atime, threshold, thStatuses, thObjs, thProgress, thSrcFiles,
                   thTotalFiles, calls, copyPc, copyLeft, monPc, monIter, checks>>

\* The sync client reads a destination file, which moves its last-access time.
SyncAccess(p) ==
    /\ p \in thDst
    /\ atime[p] < now
    /\ atime' = [atime EXCEPT ![p] = now]
    /\ thLog' = [NoStep EXCEPT !.thread = "env", !.op = "access", !.paths = {p}]
    /\ UNCHANGED <<thDst, now, threshold, thStatuses, thObjs, thProgress, thSrcFiles,
                   thTotalFiles, calls, copyPc, copyLeft, monPc, monIter, checks>>

ThUpload ==
    /\ component = "threaded"
    /\ \E batch \in SUBSET SrcPaths : batch # {} /\ ThUploadFiles(batch)
    /\ UNCHANGED <<component, ovVars, mnVars, dgVars>>

ThCopyStart ==
    /\ component = "threaded"
    /\ \E k \in CallIds, confirmed \in BOOLEAN : CopyStart(k, confirmed)
    /\ UNCHANGED <<component, ovVars, mnVars, dgVars>>

ThCopyOne ==
    /\ component = "threaded"
    /\ \E k \in CallIds, src \in SrcPaths, t0 \in 0..MaxTime : t0 <= now /\ CopyOne(k, src, t0)
    /\ UNCHANGED <<component, ovVars, mnVars, dgVars>>

ThStartMonitor ==
    /\ component = "threaded"
    /\ \E k \in CallIds : StartMonitor(k)
    /\ UNCHANGED <<component, ovVars, mnVars, dgVars>>

ThMonitorCount ==
    /\ component = "threaded"
    /\ \E k \in CallIds : MonitorCount(k)
    /\ UNCHANGED <<component, ovVars, mnVars, dgVars>>

ThMonitorTest ==
    /\ component = "threaded"
    /\ \E k \in CallIds : MonitorTest(k)
    /\ UNCHANGED <<component, ovVars, mnVars, dgVars>>

ThMonitorIter ==
    /\ component = "threaded"
    /\ \E k \in CallIds : MonitorIter(k)
    /\ UNCHANGED <<component, ovVars, mnVars, dgVars>>

ThCheck ==
    /\ component = "threaded"
    /\ \E o \in ObjIds : CheckLastAccessed(o)
    /\ UNCHANGED <<component, ovVars, mnVars, dgVars>>

ThProgress ==
    /\ component = "threaded"
    /\ ThGetUploadProgress
    /\ UNCHANGED <<component, ovVars, mnVars, dgVars>>

ThDelete ==
    /\ component = "threaded"
    /\ \E path \in SrcPaths : ThDeleteFile(path)
    /\ UNCHANGED <<component, ovVars, mnVars, dgVars>>

ThTick ==
    /\ component = "threaded"
    /\ Tick
    /\ UNCHANGED <<component, ovVars, mnVars, dgVars>>

ThAccess ==
    /\ component = "threaded"
    /\ \E p \in DstPaths : SyncAccess(p)
    /\ UNCHANGED <<component, ovVars, mnVars, dgVars>>

\* ------------------------------------------------------------------------
\* Claims about the threaded UploadManager
\* ------------------------------------------------------------------------

\* C4 as stated: every access to _file_statuses and every write of a changed flag
\* happens under _lock, and the dictionary never changes while a monitor thread is
\* iterating over it.
C4_LockGuardsDictionary ==
    /\ [](thLog.access # "none" => thLog.locked)
    /\ [][(\E k \in CallIds : monPc[k] = "iter") =>
             DOMAIN thStatuses' = DOMAIN thStatuses]_vars

MonitorEnded(pc) == pc \in {"exited", "crashed"}

\* C5 as stated: the monitor thread starts only after every file of the batch has
\* been copied and recorded, never after a declined confirmation, and a call ends
\* only with progress 100 (monitor loop left) or progress -1 (declined, nothing copied).
C5_Phases ==
    [][\A k \in CallIds :
          /\ (monPc[k] = "none" /\ monPc'[k] # "none") =>
                 (copyPc[k] = "copy" /\ copyLeft[k] = {})
          /\ (copyPc'[k] = "cancelled" => monPc'[k] = "none")
          /\ (~MonitorEnded(monPc[k]) /\ MonitorEnded(monPc'[k])) =>
                 (monPc'[k] = "exited" /\ thProgress' = 100)
          /\ (copyPc[k] # "cancelled" /\ copyPc'[k] = "cancelled") =>
                 (thProgress' = -1 /\ thDst' = thDst /\ thStatuses' = Empty)]_vars

\* C9 as stated: delete_file does nothing unless the destination path is tracked and
\* its record is in the changed state; a file not yet detected as uploaded is never
\* removed by it.
C9_DeleteOnlyChanged ==
    [][thLog'.op = "delete_file" =>
          \A p \in thLog'.paths :
              (p \in DOMAIN thStatuses /\ thObjs[thStatuses[p]].changed)
                  \/ (thDst' = thDst /\ thStatuses' = thStatuses)]_vars

\* ------------------------------------------------------------------------
\* Claims about both UploadManager implementations
\* ------------------------------------------------------------------------

\* C7: a copied file is marked changed only on the evidence of the polled signal. In
\* the overlay version only get_upload_progress marks a record, and only when the
\* index it read is the shell's index, not None, and differs from the index recorded
\* after the copy; in the threaded version only a check thread marks a status dict,
\* and only when the file's access time exceeds the one recorded after the copy by
\* at least ACCESS_CHANGE_THRESHOLD.
C7_MarkedOnlyOnSignal ==
    [][/\ \A p \in DOMAIN fileStatuses' :
              fileStatuses'[p].changed =>
                  \/ /\ lastCall'.op # "upload_files"
                     /\ p \in DOMAIN fileStatuses /\ fileStatuses[p].changed
                  \/ /\ lastCall'.op = "get_upload_progress"
                     /\ p \in DOMAIN fileStatuses
                     /\ \E r \in lastCall'.reads :
                            /\ r[1] = p /\ r[2] = overlay[p]
                            /\ r[2] # NoneIdx
                            /\ r[2] # fileStatuses[p].initial_overlay
       /\ \A o \in ObjIds :
              (thObjs'[o].changed /\ ~thObjs[o].changed) =>
                  /\ thLog'.thread = "check"
                  /\ o[2] \in thDst
                  /\ atime[o[2]] - thObjs[o].initial >= threshold]_vars

\* C7 witness: a check thread has just marked a status dict whose recorded access
\* time is not 0.
C7_Witness ==
    /\ thLog.op = "mark"
    /\ \E o \in ObjIds : thObjs[o].changed /\ thObjs[o].initial > 0

\* ------------------------------------------------------------------------
\* main (src/main.py)
\* ------------------------------------------------------------------------

\* The title of an editor window, as the words it is made of.
EditorWindow == <<"main.py", "-", "Visual Studio Code">>

\* Window titles.
WindowTitles == {EditorWindow, <<"Notepad">>}

\* Folders of the drive, as the characters of their names ("IDSP" is U+3000).
Folders == {<<"p">>, <<"p", "IDSP", "q">>}

\* Files an editing session may leave in the workspace directory.
WsFiles == {"x.py", "y.py"}

\* Variant of IsVscodeRunning: the title must be exactly "Visual Studio Code".
IsVscodeRunningExactTitle == \E w \in windows : w = <<"Visual Studio Code">>

\* VSCodeMonitor.is_vscode_running: some window title contains "Visual Studio Code"
IsVscodeRunning == \E w \in windows : \E i \in 1..Len(w) : w[i] = "Visual Studio Code"

\* selected_folder.replace("IDSP", "_")
WorkspaceName(folder) == [i \in 1..Len(folder) |-> IF folder[i] = "IDSP" THEN "_" ELSE folder[i]]

\* Variant of MainAfter: the upload dialog is opened before the editor is launched.
MainAfterDialogFirst(step) ==
    CASE step = "check" -> "config"
      [] step = "config" -> "select"
      [] step = "select" -> "workspace"
      [] step = "workspace" -> "generate"
      [] step = "generate" -> "history"
      [] step = "history" -> "dialog"
      [] step = "launch" -> "wait"
      [] step = "wait" -> "cleanup"
      [] step = "storage" -> "launch"
      [] step = "dialog" -> "dialog_open"
      [] step = "dialog_open" -> "storage"
      [] step = "cleanup" -> "returned"

\* The order of the statements of main: the statement that follows `step' when
\* `step' neither returns nor raises.
MainAfter(step) ==
    CASE step = "check" -> "config"
      [] step = "config" -> "select"
      [] step = "select" -> "workspace"
      [] step = "workspace" -> "generate"
      [] step = "generate" -> "history"
      [] step = "history" -> "launch"
      [] step = "launch" -> "wait"
      [] step = "wait" -> "storage"
      [] step = "storage" -> "dialog"
      [] step = "dialog" -> "dialog_open"
      [] step = "dialog_open" -> "cleanup"
      [] step = "cleanup" -> "returned"

\* The state in which main is entered.
MnInit ==
    /\ mnPc = "check"
    /\ mnRc = 0
    /\ windows \in SUBSET WindowTitles
    /\ selected = <<>>
    /\ wsDirs \in SUBSET {WorkspaceName(f) : f \in Folders}
    /\ wsContent \in SUBSET WsFiles
    /\ trash = {}
    /\ wsFile \in BOOLEAN
    /\ baseReadable \in BOOLEAN
    /\ storage \in {"missing", "state"}
    /\ editor = "off"
    /\ dialog = "none"
    /\ mnTrace = <<>>

\* main when the behaviour exercises another component.
MnIdle ==
    /\ mnPc = "returned"
    /\ mnRc = 0
    /\ windows = {}
    /\ selected = <<>>
    /\ wsDirs = {}
    /\ wsContent = {}
    /\ trash = {}
    /\ wsFile = FALSE
    /\ baseReadable = FALSE
    /\ storage = "missing"
    /\ editor = "off"
    /\ dialog = "none"
    /\ mnTrace = <<>>

\* Variant of MainReturn: the return code of an early return is lost.
MainReturnZero(rc, events) ==
    /\ mnPc' = "returned"
    /\ mnRc' = 0
    /\ mnTrace' = mnTrace \o events

\* main returns `rc', after the events `events'.
MainReturn(rc, events) ==
    /\ mnPc' = "returned"
    /\ mnRc' = rc
    /\ mnTrace' = mnTrace \o events

\* main goes on with the statement after `step', after the events `events'.
MainGoOn(step, events) ==
    /\ mnPc' = MainAfter(step)
    /\ mnRc' = mnRc
    /\ mnTrace' = mnTrace \o events

\* An exception main does not catch ends it.
MainCrash(events) ==
    /\ mnPc' = "crashed"
    /\ mnRc' = mnRc
    /\ mnTrace' = mnTrace \o events

\* if VSCodeMonitor.is_vscode_running(): showerror; return 1
MainCheck ==
    /\ mnPc = "check"
    /\ IF IsVscodeRunning
       THEN MainReturn(1, <<"showerror">>)
       ELSE MainGoOn("check", <<>>)
    /\ UNCHANGED <<windows, selected, wsDirs, wsContent, trash, wsFile, baseReadable,
                   storage, editor, dialog>>

\* config.read(resolve_path(CONFIG_FILE_PATH), "UTF-8")
MainConfig ==
    /\ mnPc = "config"
    /\ MainGoOn("config", <<"config">>)
    /\ UNCHANGED <<windows, selected, wsDirs, wsContent, trash, wsFile, baseReadable,
                   storage, editor, dialog>>

\* selected_folder = select_folder(...); None (here <<>>) returns 0
MainSelect(choice) ==
    /\ mnPc = "select"
    /\ selected' = choice
    /\ IF choice = <<>>
       THEN MainReturn(0, <<"picker">>)
       ELSE MainGoOn("select", <<"picker", "picked">>)
    /\ UNCHANGED <<windows, wsDirs, wsContent, trash, wsFile, baseReadable, storage,
                   editor, dialog>>

\* `not restore_confirm' for the string askquestion returns ("yes" or "no")
NotRestore(answer) == answer = ""

\* A left-over workspace: askquestion, send2trash when `not restore_confirm';
\* then os.makedirs(workspace_path, exist_ok=True).
MainWorkspace(answer) ==
    LET ws == WorkspaceName(selected)
        existed == ws \in wsDirs
        trashed == existed /\ NotRestore(answer)
    IN  /\ mnPc = "workspace"
        /\ (~existed => answer = "yes")
        /\ trash' = IF trashed THEN trash \cup {<<ws, wsContent>>} ELSE trash
        /\ wsContent' = IF trashed \/ ~existed THEN {} ELSE wsContent
        /\ wsDirs' = wsDirs \cup {ws}
        /\ MainGoOn("workspace", (IF existed THEN <<"askrestore", answer>> ELSE <<>>)
                                   \o (IF trashed THEN <<"trash_old">> ELSE <<>>)
                                   \o <<"makedirs">>)
        /\ UNCHANGED <<windows, selected, wsFile, baseReadable, storage, editor, dialog>>

\* WorkspacePlaceholderReplacer(...).process(); an exception: showerror, return 1
MainGenerate ==
    /\ mnPc = "generate"
    /\ IF baseReadable
       THEN /\ wsFile' = TRUE
            /\ MainGoOn("generate", <<"wsfile">>)
       ELSE /\ wsFile' = wsFile
            /\ MainReturn(1, <<"showerror">>)
    /\ UNCHANGED <<windows, selected, wsDirs, wsContent, trash, baseReadable, storage,
                   editor, dialog>>

\* vs_code_runner.delete_last_history(): storage.json is read and rewritten with an
\* empty windowsState; a missing file raises.
MainHistory ==
    /\ mnPc = "history"
    /\ IF storage = "missing"
       THEN /\ storage' = storage
            /\ MainCrash(<<>>)
       ELSE /\ storage' = "cleared"
            /\ MainGoOn("history", <<"storage">>)
    /\ UNCHANGED <<windows, selected, wsDirs, wsContent, trash, wsFile, baseReadable,
                   editor, dialog>>

\* run_and_wait: subprocess.Popen; `started' is whether it succeeds
MainLaunch(started) ==
    /\ mnPc = "launch"
    /\ IF started
       THEN /\ editor' = "running"
            /\ windows' = windows \cup {EditorWindow}
            /\ MainGoOn("launch", <<"launch">>)
       ELSE /\ editor' = editor
            /\ windows' = windows
            /\ MainReturn(1, <<"showerror">>)
    /\ UNCHANGED <<selected, wsDirs, wsContent, trash, wsFile, baseReadable, storage, dialog>>

\* The user works in the editor: a file of the workspace appears or goes.
EditorEdit(file) ==
    /\ editor = "running"
    /\ wsContent' = IF file \in wsContent THEN wsContent \ {file} ELSE wsContent \cup {file}
    /\ UNCHANGED <<mnPc, mnRc, windows, selected, wsDirs, trash, wsFile, baseReadable,
                   storage, editor, dialog, mnTrace>>

\* The editor process ends; it leaves its window state in storage.json.
EditorExit ==
    /\ editor = "running"
    /\ editor' = "exited"
    /\ windows' = windows \ {EditorWindow}
    /\ storage' = "state"
    /\ UNCHANGED <<mnPc, mnRc, selected, wsDirs, wsContent, trash, wsFile, baseReadable,
                   dialog, mnTrace>>

\* run_and_wait: process.wait() returns once the process has ended
MainWait ==
    /\ mnPc = "wait"
    /\ editor = "exited"
    /\ MainGoOn("wait", <<"waited">>)
    /\ UNCHANGED <<windows, selected, wsDirs, wsContent, trash, wsFile, baseReadable,
                   storage, editor, dialog>>

\* delete_workspace_storage() and delete_last_history(); a storage.json without the
\* last window's workspace id raises
MainStorage ==
    /\ mnPc = "storage"
    /\ IF storage = "state"
       THEN /\ storage' = "cleared"
            /\ MainGoOn("storage", <<"storage">>)
       ELSE /\ storage' = storage
            /\ MainCrash(<<>>)
    /\ UNCHANGED <<windows, selected, wsDirs, wsContent, trash, wsFile, baseReadable,
                   editor, dialog>>

\* select_upload_files(...): the dialog opens; `raised' is whether building it raises
MainDialog(raised) ==
    /\ mnPc = "dialog"
    /\ IF raised
       THEN /\ dialog' = dialog
            /\ MainReturn(1, <<"showerror">>)
       ELSE /\ dialog' = "open"
            /\ MainGoOn("dialog", <<"dialog_open">>)
    /\ UNCHANGED <<windows, selected, wsDirs, wsContent, trash, wsFile, baseReadable,
                   storage, editor>>

\* root.mainloop() returns when the dialog's window is destroyed, or raises
MainDialogEnd(raised) ==
    /\ mnPc = "dialog_open"
    /\ dialog' = "closed"
    /\ IF raised
       THEN MainReturn(1, <<"showerror">>)
       ELSE MainGoOn("dialog_open", <<"dialog_closed">>)
    /\ UNCHANGED <<windows, selected, wsDirs, wsContent, trash, wsFile, baseReadable,
                   storage, editor>>

\* send2trash(workspace_path); os.remove(workspace_file_path_resolved); return 0
MainCleanup ==
    LET ws == WorkspaceName(selected)
    IN  /\ mnPc = "cleanup"
        /\ trash' = trash \cup {<<ws, wsContent>>}
        /\ wsDirs' = wsDirs \ {ws}
        /\ wsContent' = {}
        /\ wsFile' = FALSE
        /\ mnPc' = MainAfter("cleanup")
        /\ mnRc' = 0
        /\ mnTrace' = mnTrace \o <<"trash", "remove">>
        /\ UNCHANGED <<windows, selected, baseReadable, storage, editor, dialog>>

MnCheck ==
    /\ component = "main"
    /\ MainCheck
    /\ UNCHANGED <<component, ovVars, thVars, dgVars>>

MnConfig ==
    /\ component = "main"
    /\ MainConfig
    /\ UNCHANGED <<component, ovVars, thVars, dgVars>>

MnSelect ==
    /\ component = "main"
    /\ \E choice \in Folders \cup {<<>>} : MainSelect(choice)
    /\ UNCHANGED <<component, ovVars, thVars, dgVars>>

MnWorkspace ==
    /\ component = "main"
    /\ \E answer \in {"yes", "no"} : MainWorkspace(answer)
    /\ UNCHANGED <<component, ovVars, thVars, dgVars>>

MnGenerate ==
    /\ component = "main"
    /\ MainGenerate
    /\ UNCHANGED <<component, ovVars, thVars, dgVars>>

MnHistory ==
    /\ component = "main"
    /\ MainHistory
    /\ UNCHANGED <<component, ovVars, thVars, dgVars>>

MnLaunch ==
    /\ component = "main"
    /\ \E started \in BOOLEAN : MainLaunch(started)
    /\ UNCHANGED <<component, ovVars, thVars, dgVars>>

MnEdit ==
    /\ component = "main"
    /\ \E file \in WsFiles : EditorEdit(file)
    /\ UNCHANGED <<component, ovVars, thVars, dgVars>>

MnEditorExit ==
    /\ component = "main"
    /\ EditorExit
    /\ UNCHANGED <<component, ovVars, thVars, dgVars>>

MnWait ==
    /\ component = "main"
    /\ MainWait
    /\ UNCHANGED <<component, ovVars, thVars, dgVars>>

MnStorage ==
    /\ component = "main"
    /\ MainStorage
    /\ UNCHANGED <<component, ovVars, thVars, dgVars>>

MnDialog ==
    /\ component = "main"
    /\ \E raised \in BOOLEAN : MainDialog(raised)
    /\ UNCHANGED <<component, ovVars, thVars, dgVars>>

MnDialogEnd ==
    /\ component = "main"
    /\ \E raised \in BOOLEAN : MainDialogEnd(raised)
    /\ UNCHANGED <<component, ovVars, thVars, dgVars>>

MnCleanup ==
    /\ component = "main"
    /\ MainCleanup
    /\ UNCHANGED <<component, ovVars, thVars, dgVars>>

\* ------------------------------------------------------------------------
\* Claims about main
\* ------------------------------------------------------------------------

\* Position of the first occurrence of an event in the trace (0 when absent).
Pos(e) ==
    IF \E i \in 1..Len(mnTrace) : mnTrace[i] = e
    THEN CHOOSE i \in 1..Len(mnTrace) : mnTrace[i] = e /\ \A j \in 1..(i - 1) : mnTrace[j] # e
    ELSE 0

Before(a, b) == Pos(b) > 0 => (Pos(a) > 0 /\ Pos(a) < Pos(b))

\* C6: the steps of main occur in order: the editor is launched only after a folder
\* was picked, the workspace directory exists and the workspace file was generated;
\* the upload dialog opens only after the editor process has ended; the workspace is
\* trashed and the workspace file removed only after the dialog has closed.
C6_WorkflowOrder ==
    /\ Before("picked", "makedirs") /\ Before("makedirs", "launch")
    /\ Before("wsfile", "launch")
    /\ (editor = "running" => (wsFile /\ WorkspaceName(selected) \in wsDirs))
    /\ Before("launch", "waited") /\ Before("waited", "dialog_open")
    /\ (dialog # "none" => editor = "exited")
    /\ Before("dialog_open", "dialog_closed")
    /\ Before("dialog_closed", "trash") /\ Before("dialog_closed", "remove")
    /\ (trash # {} /\ Pos("trash_old") = 0 => dialog = "closed")

\* C6 witness: main has run to its end and cleaned up after an editing session.
C6_Witness ==
    /\ mnPc = "returned" /\ mnRc = 0 /\ Pos("remove") > 0
    /\ \E t \in trash : t[2] # {}

\* C10: when a Visual Studio Code window is open as main starts, main shows an error
\* and returns 1, and does nothing else: no configuration read, no folder picker, no
\* workspace directory created or trashed, no workspace file written, storage.json
\* untouched, no editor launched.
C10_RefusesWhenEditorOpen ==
    [][(mnPc = "check" /\ EditorWindow \in windows) =>
          /\ mnPc' = "returned"
          /\ mnRc' = 1
          /\ mnTrace' = <<"showerror">>
          /\ UNCHANGED <<windows, selected, wsDirs, wsContent, trash, wsFile, storage,
                         editor, dialog>>]_vars

\* C10 witness: main has returned because an editor window was open, while a
\* workspace directory and a workspace file were lying around.
C10_Witness ==
    /\ mnPc = "returned" /\ mnRc = 1 /\ mnTrace = <<"showerror">>
    /\ EditorWindow \in windows /\ editor = "off"
    /\ wsDirs # {} /\ wsFile

\* C11 as stated: when the workspace directory of the selected folder exists, main
\* asks whether to restore it; on the answer no the previous workspace is moved to
\* the trash and the directory is created anew, empty; on the answer yes the
\* previous contents are kept.
C11_RestorePrompt ==
    [][(mnPc = "workspace" /\ mnPc' # "workspace"
            /\ WorkspaceName(selected) \in wsDirs) =>
          LET ws == WorkspaceName(selected)
              answer == mnTrace'[Len(mnTrace) + 2]
          IN  /\ mnTrace'[Len(mnTrace) + 1] = "askrestore"
              /\ (answer = "no" =>
                     /\ trash' = trash \cup {<<ws, wsContent>>}
                     /\ wsContent' = {}
                     /\ ws \in wsDirs')
              /\ (answer = "yes" => (wsContent' = wsContent /\ trash' = trash))]_vars

\* C14: when the generation of the workspace file, the launch of the editor or the
\* upload dialog raises, main shows an error and returns 1 with the workspace
\* directory not trashed and the workspace file not removed; main returns 0 only
\* when no folder was selected or after the cleanup has run.
C14_ErrorsReturnOne ==
    [][(mnPc # "returned" /\ mnPc' = "returned") =>
          /\ (mnPc \in {"generate", "launch", "dialog", "dialog_open"} =>
                 /\ mnRc' = 1
                 /\ mnTrace'[Len(mnTrace')] = "showerror"
                 /\ trash' = trash /\ wsDirs' = wsDirs /\ wsContent' = wsContent
                 /\ (wsFile => wsFile')
                 /\ Pos("trash")' = 0 /\ Pos("remove")' = 0)
          /\ (mnRc' = 1 => mnTrace'[Len(mnTrace')] = "showerror")
          /\ (mnRc' = 0 =>
                 \/ (mnPc = "select" /\ selected' = <<>>)
                 \/ (mnPc = "cleanup" /\ Pos("trash")' > 0 /\ Pos("remove")' > 0
                        /\ ~wsFile' /\ WorkspaceName(selected) \notin wsDirs'))]_vars

\* C14 witness: main has returned 1 from a failed step after the workspace was set
\* up, and the workspace directory and its files are still there.
C14_Witness ==
    /\ mnPc = "returned" /\ mnRc = 1
    /\ Pos("makedirs") > 0 /\ Pos("launch") > 0
    /\ WorkspaceName(selected) \in wsDirs /\ wsContent # {} /\ wsFile /\ trash = {}

\* ------------------------------------------------------------------------
\* Upload dialog (src/utils/file_upload_selector.py)
\* ------------------------------------------------------------------------

\* The path separator.
Sep == "\\"

\* The items of the workspace directory, relative to it, as the characters of their
\* paths: the folders d and d\e, the file d\e\b and the file da.
Items == {<<"d">>, <<"d", Sep, "e">>, <<"d", Sep, "e", Sep, "b">>, <<"d", "a">>}

\* The items that are directories (os.path.isdir); the others are files.
DirItems == {<<"d">>, <<"d", Sep, "e">>}

FileItems == Items \ DirItems

\* os.path.join(directory_path, item) for a file item: the source path the upload
\* manager is given (da is the manager's file "a", d\e\b its file "b").
JoinDir(item) == SrcPath(IF item = <<"d", "a">> THEN "a" ELSE "b")

\* Contents the exclude-list file may have.
ExcludeChoices == {{}, {<<"e">>}, {<<"d">>, <<"d", "a">>}}

\* path.split("\\"), as the set of its parts
Components(path) ==
    {SubSeq(path, i, j) : <<i, j>> \in
        {r \in (1..Len(path)) \X (1..Len(path)) :
            /\ r[1] <= r[2]
            /\ \A k \in r[1]..r[2] : path[k] # Sep
            /\ (r[1] = 1 \/ path[r[1] - 1] = Sep)
            /\ (r[2] = Len(path) \/ path[r[2] + 1] = Sep)}}

\* ExcludePattern.is_excluded
IsExcluded(path, patterns) == \E exclude \in patterns : exclude \in Components(path)

\* FileManager.list_directory_contents, as a set
ListDirectoryContents(dirOk, patterns) ==
    IF dirOk THEN {item \in Items : ~IsExcluded(item, patterns)} ELSE {}

\* sub.startswith(prefix)
StartsWith(sub, prefix) ==
    Len(prefix) <= Len(sub) /\ SubSeq(sub, 1, Len(prefix)) = prefix

\* Variant of CascadeTarget: the separator after the folder's path is not required.
CascadeTargetNoSep(sub_item, item) == sub_item # item /\ StartsWith(sub_item, item)

\* sub_item.startswith(f"{item}\\")
CascadeTarget(sub_item, item) == StartsWith(sub_item, item \o <<Sep>>)

RECURSIVE OnSelectionChange(_, _)
RECURSIVE SetVar(_, _, _)
RECURSIVE SetAll(_, _, _)

\* check_vars[item].set(value): the write runs the variable's trace callback, which
\* is _on_selection_change(item)
SetVar(cv, item, value) == OnSelectionChange([cv EXCEPT ![item] = value], item)

\* The for loop of _on_selection_change over the sub-items `subs'
SetAll(cv, subs, value) ==
    IF subs = {} THEN cv
    ELSE LET sub_item == CHOOSE z \in subs : TRUE
         IN  SetAll(SetVar(cv, sub_item, value), subs \ {sub_item}, value)

\* _on_selection_change(item)
OnSelectionChange(cv, item) ==
    IF item \in DirItems
    THEN SetAll(cv, {sub_item \in DOMAIN cv : CascadeTarget(sub_item, item)}, cv[item])
    ELSE cv

\* _get_selected_files
GetSelectedFiles ==
    {JoinDir(item) : item \in {i \in DOMAIN checkVars : checkVars[i] /\ i \in FileItems}}

\* Overlay indices the shell reports while the dialog is open.
DialogOverlays == {0, 1}

\* Byte sizes of the two files of the workspace.
DialogSizes == [p \in SrcPaths |-> IF p = SrcPath("a") THEN 29 ELSE 21]

\* A handler record: the handler, the item it was run for, whether it asked the
\* user a question and the answer, and how it ended.
NoHandler == [op |-> "none", item |-> <<>>, asked |-> FALSE, answer |-> FALSE,
              outcome |-> "none"]

\* The state in which select_upload_files is called.
DgInit ==
    /\ OvInit
    /\ srcSize = DialogSizes
    /\ dgWin = "none"
    /\ dgDirOk \in BOOLEAN
    /\ dgExclOk \in BOOLEAN
    /\ dgExcludes \in (IF dgExclOk THEN ExcludeChoices ELSE {{}})
    /\ checkVars = Empty
    /\ uploadedFiles = {}
    /\ dgButton = "normal"
    /\ dgTimer = FALSE
    /\ dgPc = "idle"
    /\ dgSelected = {}
    /\ dgPending = {}
    /\ dgLog = NoHandler

\* The dialog when the behaviour exercises another component.
DgIdle ==
    /\ dgWin = "none"
    /\ dgDirOk = FALSE
    /\ dgExclOk = FALSE
    /\ dgExcludes = {}
    /\ checkVars = Empty
    /\ uploadedFiles = {}
    /\ dgButton = "normal"
    /\ dgTimer = FALSE
    /\ dgPc = "idle"
    /\ dgSelected = {}
    /\ dgPending = {}
    /\ dgLog = NoHandler

\* How the construction of the dialog ends: "open" (mainloop runs), "destroyed" (the
\* constructor destroyed the root window, mainloop returns at once) or "raised" (a
\* second destroy of the root window raises TclError).
ConstructOutcome(listing) ==
    IF listing = {}
    THEN IF ~dgDirOk \/ ~dgExclOk THEN "raised" ELSE "destroyed"
    ELSE IF ~dgExclOk THEN "destroyed" ELSE "open"

\* select_upload_files up to root.mainloop(): tk.Tk(), FileUploadBrowserApp.__init__
SelectUploadFiles ==
    LET listing == ListDirectoryContents(dgDirOk, dgExcludes)
        outcome == ConstructOutcome(listing)
    IN  /\ dgWin = "none"
        /\ dgWin' = IF outcome = "open" THEN "open" ELSE "destroyed"
        /\ checkVars' = [item \in listing |-> TRUE]
        /\ dgLog' = [NoHandler EXCEPT !.op = "construct", !.outcome = outcome]
        /\ UNCHANGED <<dgDirOk, dgExclOk, dgExcludes, uploadedFiles, dgButton, dgTimer,
                       dgPc, dgSelected, dgPending>>
        /\ UNCHANGED ovVars

\* The user clicks the checkbox of `item': its variable is written.
ToggleCheck(item) ==
    /\ dgWin = "open" /\ dgPc = "idle"
    /\ item \in DOMAIN checkVars
    /\ checkVars' = SetVar(checkVars, item, ~checkVars[item])
    /\ dgLog' = [NoHandler EXCEPT !.op = "toggle", !.item = item]
    /\ UNCHANGED <<dgWin, dgDirOk, dgExclOk, dgExcludes, uploadedFiles, dgButton, dgTimer,
                   dgPc, dgSelected, dgPending>>
    /\ UNCHANGED ovVars

\* _on_close: `answer' is the answer to the askokcancel warning (asked only while
\* uploaded_files is empty)
OnClose(answer) ==
    LET asked == uploadedFiles = {}
    IN  /\ dgWin = "open" /\ dgPc = "idle"
        /\ dgLog' = [NoHandler EXCEPT !.op = "on_close", !.asked = asked,
                        !.answer = asked /\ answer]
        /\ IF asked /\ ~answer
           THEN UNCHANGED <<dgWin, checkVars, dgTimer>>
           ELSE /\ checkVars' = Empty
                /\ dgWin' = "destroyed"
                /\ dgTimer' = FALSE
        /\ UNCHANGED <<dgDirOk, dgExclOk, dgExcludes, uploadedFiles, dgButton, dgPc,
                       dgSelected, dgPending>>
        /\ UNCHANGED ovVars

\* _on_upload, up to its loop over deleting_items
OnUpload ==
    LET selected_items == GetSelectedFiles
    IN  /\ dgWin = "open" /\ dgPc = "idle" /\ dgButton = "normal"
        /\ IF selected_items = {}
           THEN /\ dgLog' = [NoHandler EXCEPT !.op = "on_upload", !.outcome = "nothing selected"]
                /\ UNCHANGED <<dgButton, dgPc, dgSelected, dgPending>>
           ELSE /\ dgLog' = [NoHandler EXCEPT !.op = "on_upload"]
                /\ dgButton' = "disabled"
                /\ dgPc' = "deleting"
                /\ dgSelected' = selected_items
                /\ dgPending' = uploadedFiles \ selected_items
        /\ UNCHANGED <<dgWin, dgDirOk, dgExclOk, dgExcludes, checkVars, uploadedFiles, dgTimer>>
        /\ UNCHANGED ovVars

\* _on_upload, one turn of the loop: delete_file(item); uploaded_files.remove(item)
OnUploadDelete(item) ==
    /\ dgPc = "deleting"
    /\ item \in dgPending
    /\ DeleteFile(item)
    /\ uploadedFiles' = uploadedFiles \ {item}
    /\ dgPending' = dgPending \ {item}
    /\ dgLog' = [NoHandler EXCEPT !.op = "on_upload_delete"]
    /\ UNCHANGED <<dgWin, dgDirOk, dgExclOk, dgExcludes, checkVars, dgButton, dgTimer, dgPc,
                   dgSelected>>

\* _on_upload after the loop: upload_files(new_files) if there are new files, then
\* root.after(500, self._update_progress)
OnUploadCall(confirmed, failed) ==
    LET new_files == dgSelected \ uploadedFiles
    IN  /\ dgPc = "deleting" /\ dgPending = {}
        /\ IF new_files # {}
           THEN /\ failed \subseteq new_files
                /\ (ExistingFiles(new_files) = {} => confirmed)
                /\ (~confirmed => failed = {})
                /\ UploadFiles(new_files, confirmed, failed)
           ELSE /\ confirmed /\ failed = {}
                /\ UNCHANGED ovVars
        /\ dgTimer' = TRUE
        /\ dgPc' = "idle"
        /\ dgSelected' = {}
        /\ dgLog' = [NoHandler EXCEPT !.op = "on_upload_call"]
        /\ UNCHANGED <<dgWin, dgDirOk, dgExclOk, dgExcludes, checkVars, uploadedFiles,
                       dgButton, dgPending>>

\* _update_progress, run by the timer; `failed' are the overlay reads that raise
UpdateProgress(failed) ==
    /\ dgWin = "open" /\ dgPc = "idle" /\ dgTimer
    /\ GetUploadProgress(failed)
    /\ dgLog' = [NoHandler EXCEPT !.op = "update_progress"]
    /\ IF ~hasSizes
       THEN \* the exception ends the callback
            /\ dgTimer' = FALSE
            /\ UNCHANGED <<dgButton, uploadedFiles>>
       ELSE IF progress' < 0
       THEN /\ dgTimer' = FALSE
            /\ dgButton' = "normal"
            /\ UNCHANGED uploadedFiles
       ELSE IF progress' < 100
       THEN UNCHANGED <<dgTimer, dgButton, uploadedFiles>>
       ELSE /\ dgTimer' = FALSE
            /\ dgButton' = "normal"
            /\ uploadedFiles' = uploadedFiles \cup GetSelectedFiles
    /\ UNCHANGED <<dgWin, dgDirOk, dgExclOk, dgExcludes, checkVars, dgPc, dgSelected,
                   dgPending>>

\* The sync client changes the overlay icon of a file being tracked while the dialog
\* is open.
DialogSignal(path, idx) ==
    /\ dgWin = "open"
    /\ path \in DOMAIN fileStatuses
    /\ OverlaySignal(path, idx)
    /\ dgLog' = [NoHandler EXCEPT !.op = "env"]
    /\ UNCHANGED <<dgWin, dgDirOk, dgExclOk, dgExcludes, checkVars, uploadedFiles, dgButton,
                   dgTimer, dgPc, dgSelected, dgPending>>

DgConstruct ==
    /\ component = "dialog"
    /\ SelectUploadFiles
    /\ UNCHANGED <<component, thVars, mnVars>>

DgToggle ==
    /\ component = "dialog"
    /\ \E item \in Items : ToggleCheck(item)
    /\ UNCHANGED <<component, thVars, mnVars>>

DgClose ==
    /\ component = "dialog"
    /\ \E answer \in BOOLEAN : OnClose(answer)
    /\ UNCHANGED <<component, thVars, mnVars>>

DgUpload ==
    /\ component = "dialog"
    /\ OnUpload
    /\ UNCHANGED <<component, thVars, mnVars>>

DgUploadDelete ==
    /\ component = "dialog"
    /\ \E item \in SrcPaths : OnUploadDelete(item)
    /\ UNCHANGED <<component, thVars, mnVars>>

DgUploadCall ==
    /\ component = "dialog"
    /\ \E confirmed \in BOOLEAN, failed \in SUBSET SrcPaths : OnUploadCall(confirmed, failed)
    /\ UNCHANGED <<component, thVars, mnVars>>

DgProgress ==
    /\ component = "dialog"
    /\ \E failed \in SUBSET (DOMAIN fileStatuses) : UpdateProgress(failed)
    /\ UNCHANGED <<component, thVars, mnVars>>

DgSignal ==
    /\ component = "dialog"
    /\ \E path \in DstPaths, idx \in DialogOverlays : DialogSignal(path, idx)
    /\ UNCHANGED <<component, thVars, mnVars>>

\* ------------------------------------------------------------------------
\* Claims about the upload dialog
\* ------------------------------------------------------------------------

\* C12 as stated: the dialog's window goes away while uploaded_files is empty only
\* through _on_close after the user confirmed the warning; a declined warning leaves
\* the window open and check_vars, uploaded_files and the upload manager unchanged;
\* with uploaded_files non-empty _on_close closes without asking.
C12_CloseNeedsConfirmation ==
    [][/\ (dgWin # "destroyed" /\ dgWin' = "destroyed" /\ uploadedFiles = {}) =>
              (dgLog'.op = "on_close" /\ dgLog'.asked /\ dgLog'.answer)
       /\ (dgLog'.op = "on_close" /\ dgLog'.asked /\ ~dgLog'.answer) =>
              (dgWin' = "open" /\ UNCHANGED <<checkVars, uploadedFiles, ovVars>>)
       /\ (dgLog'.op = "on_close" /\ uploadedFiles # {}) =>
              (~dgLog'.asked /\ dgWin' = "destroyed")]_vars

\* Whether `sub' lies below the folder `item': its path is the folder's path, a
\* backslash, and more.
Below(sub, item) ==
    \E k \in 1..(Len(sub) - 2) : SubSeq(sub, 1, k) = item /\ sub[k + 1] = Sep

\* C13: when the checkbox of a folder item is set, every listed item below the folder,
\* at any depth, ends with the folder's state, and every other item keeps its state.
C13_FolderCascade ==
    [][(dgLog'.op = "toggle" /\ dgLog'.item \in DirItems) =>
          LET item == dgLog'.item
          IN  /\ DOMAIN checkVars' = DOMAIN checkVars
              /\ checkVars'[item] = ~checkVars[item]
              /\ \A sub \in DOMAIN checkVars \ {item} :
                     checkVars'[sub] = IF Below(sub, item) THEN checkVars'[item]
                                       ELSE checkVars[sub]]_vars

\* C13 witness: the folder d has just been unchecked, which unchecked d\e and d\e\b
\* two levels down, while da, outside it, is still checked.
C13_Witness ==
    /\ dgLog.op = "toggle" /\ dgLog.item = <<"d">>
    /\ DOMAIN checkVars = Items
    /\ ~checkVars[<<"d">>] /\ ~checkVars[<<"d", Sep, "e">>]
    /\ ~checkVars[<<"d", Sep, "e", Sep, "b">>] /\ checkVars[<<"d", "a">>]

\* ------------------------------------------------------------------------
\* Specifications
\* ------------------------------------------------------------------------

InitOverlay == component = "overlay" /\ OvInit /\ ThIdle /\ MnIdle /\ DgIdle

NextOverlay == OvUpload \/ OvProgress \/ OvDelete \/ OvSignal \/ OvRemove

SpecOverlay == InitOverlay /\ [][NextOverlay]_vars

InitThreaded == component = "threaded" /\ ThInit /\ OvIdle /\ MnIdle /\ DgIdle

NextThreaded ==
    \/ ThUpload \/ ThCopyStart \/ ThCopyOne \/ ThStartMonitor
    \/ ThMonitorCount \/ ThMonitorTest \/ ThMonitorIter \/ ThCheck
    \/ ThProgress \/ ThDelete \/ ThTick \/ ThAccess

SpecThreaded == InitThreaded /\ [][NextThreaded]_vars

InitMain == component = "main" /\ MnInit /\ OvIdle /\ ThIdle /\ DgIdle

NextMain ==
    \/ MnCheck \/ MnConfig \/ MnSelect \/ MnWorkspace \/ MnGenerate \/ MnHistory
    \/ MnLaunch \/ MnEdit \/ MnEditorExit \/ MnWait \/ MnStorage \/ MnDialog
    \/ MnDialogEnd \/ MnCleanup

SpecMain == InitMain /\ [][NextMain]_vars

\* Both UploadManager implementations.
InitManagers == InitOverlay \/ InitThreaded

NextManagers == NextOverlay \/ NextThreaded

SpecManagers == InitManagers /\ [][NextManagers]_vars

InitDialog == component = "dialog" /\ DgInit /\ ThIdle /\ MnIdle

NextDialog ==
    \/ DgConstruct \/ DgToggle \/ DgClose \/ DgUpload \/ DgUploadDelete
    \/ DgUploadCall \/ DgProgress \/ DgSignal

SpecDialog == InitDialog /\ [][NextDialog]_vars

Init == InitOverlay \/ InitThreaded \/ InitMain \/ InitDialog
Next == NextOverlay \/ NextThreaded \/ NextMain \/ NextDialog
Spec == Init /\ [][Next]_vars
====
